---- MODULE Spec2Model ----
(***************************************************************************)
(* A model of stravaboard's ActivitiesManager                              *)
(* (src/src/stravaboard/api/data_manager.py): the paginated download       *)
(* get_data and the derivation of the presentation columns tidy_data,      *)
(* both acting on the table the instance holds in self.data.               *)
(*                                                                         *)
(* Representation.                                                         *)
(*  - A cell value is a record [t, v]: t names the kind of value.          *)
(*    Num(x) is the integer x of a raw API field, Dec(h) the float h/100   *)
(*    that a .round(2) leaves, Str(s) a string (a sequence of one          *)
(*    character strings), NaN / None / NaT the three null markers of       *)
(*    pandas.                                                              *)
(*  - A table row stands for a run of cnt consecutive records that carry   *)
(*    the same fields (cnt = 1 is a single record), so that pages of the   *)
(*    API's real size (200) stay small in the state.  The length of a      *)
(*    list or table is the sum of the cnt of its rows.                     *)
(*  - Every activity record carries an id, so a table with rows has a     *)
(*    column.                                                              *)
(*  - pandas arithmetic treats a null operand (None as well as NaN) as     *)
(*    missing and yields NaN for it.                                       *)
(***************************************************************************)
EXTENDS Integers, Sequences, FiniteSets, TLC

VARIABLES
    data,             \* self.data: Unset before the first assignment, else a table
    pc,               \* "idle", or "loop": get_data is about to issue a request
    n,                \* get_data's argument n
    per_page,         \* get_data's local per_page
    page,             \* get_data's local page
    activities_list,  \* get_data's local activities_list
    call,             \* number of get_data invocations started so far
    resps,            \* the responses received by the current / last get_data
    fault,            \* the exception the last call propagated, or "none"
    out,              \* the diagnostics the last call printed
    last,             \* the method called last: "none", "get_data", "tidy_data"
    held              \* what self.data was when the last call started:
                      \* "unset", "empty", "raw" or "tidied"

vars == <<data, pc, n, per_page, page, activities_list, call, resps, fault, out,
          last, held>>

(* ------------------------------ bounds -------------------------------- *)

MaxCalls == 2         \* get_data invocations in one behaviour
MaxLimit == 401       \* largest n passed to get_data
MaxRows == 2          \* records of the table tidy_data is studied on
LiveCalls == 1        \* get_data invocations in one behaviour of LiveSpec

STRAVA_MAX_PER_PAGE == 200

(* ------------------------------ values -------------------------------- *)

Num(x) == [t |-> "num", v |-> x]
Dec(h) == [t |-> "dec", v |-> h]
Str(s) == [t |-> "str", v |-> s]
Id(c, p, i) == [t |-> "id", v |-> <<c, p, i>>]
NaN == [t |-> "NaN", v |-> 0]
None == [t |-> "None", v |-> 0]
NaT == [t |-> "NaT", v |-> 0]
Timestamp(y, m, d) == [t |-> "date", v |-> <<y, m, d>>]

IsNull(x) == x.t \in {"NaN", "None", "NaT"}

\* The instance has no attribute data.
Unset == [attr |-> "missing"]

\* pd.DataFrame()
EmptyFrame == [cols |-> {}, rows |-> <<>>]

\* The columns tidy_data derives.
DerivedColumns == {"elapsed_min", "distance_km", "speed_mins_per_km", "date"}

HeldKind(d) ==
    IF d = Unset THEN "unset"
    ELSE IF d.rows = <<>> THEN "empty"
    ELSE IF d.cols \cap DerivedColumns # {} THEN "tidied"
    ELSE "raw"

Min(a, b) == IF a < b THEN a ELSE b

RECURSIVE Count(_)
\* len() of a list of records / of a table's index
Count(rs) == IF rs = <<>> THEN 0 ELSE Head(rs).cnt + Count(Tail(rs))

(* ------------------------- the API's responses ------------------------ *)

\* "2024-05-01T10:00:00Z"
DateTimeZ == <<"2","0","2","4","-","0","5","-","0","1","T","1","0",":","0","0",":","0","0","Z">>

\* The fields an activity record may carry besides its id.
Kinds ==
    { [elapsed_time |-> Num(120), distance |-> Num(1000), start_date_local |-> Str(DateTimeZ)],
      [elapsed_time |-> Num(60), distance |-> Num(0)],
      [start_date_local |-> Str(DateTimeZ)],
      [elapsed_time |-> Num(125), distance |-> Num(4), start_date_local |-> Str(<<"T", "B", "D">>)] }

\* A run of c records of kind k, the i-th run of page p of invocation cl.
Run(cl, p, i, c, k) == [cnt |-> c, rec |-> ("id" :> Id(cl, p, i)) @@ k]

\* The sizes of the non-empty lists a page request for pp records may return:
\* short, full, and more than was asked for.
PageSizes(pp) == {c \in {pp - 1, pp, pp + 1} : c >= 1}

\* The non-empty lists of records page p of invocation cl may return.
Payloads(cl, p, pp) ==
    UNION { { <<Run(cl, p, 1, c, k)>> : k \in Kinds }
            \cup (IF c = 2
                  THEN { <<Run(cl, p, 1, 1, k1), Run(cl, p, 2, 1, k2)>> :
                             k1 \in Kinds, k2 \in Kinds }
                  ELSE {})
          : c \in PageSizes(pp) }

\* The text of a start_date_local that is no date.
NoDate == <<"T", "B", "D">>

\* The mark of a field the record does not carry.
Absent == [t |-> "absent", v |-> 0]

\* A record with the fields whose value is not Absent.
Fields(e, d, s) ==
    (IF e = Absent THEN <<>> ELSE "elapsed_time" :> e)
    @@ (IF d = Absent THEN <<>> ELSE "distance" :> d)
    @@ (IF s = Absent THEN <<>> ELSE "start_date_local" :> s)

\* Records with every combination of present and absent source fields.
TidyKinds ==
    { Fields(e, d, s) :
        e \in {Absent, Num(120), Num(125)},
        d \in {Absent, Num(0), Num(4), Num(1000), Num(2346)},
        s \in {Absent, Str(DateTimeZ), Str(NoDate)} }

\* The list of single records of the kinds ks that one page may return.
TidyList(ks) == [i \in 1..Len(ks) |-> Run(1, 1, i, 1, ks[i])]

Limits == {-1, 0, 1, 2, STRAVA_MAX_PER_PAGE, STRAVA_MAX_PER_PAGE + 1, MaxLimit}

(* ----------------------------- get_data ------------------------------- *)

RECURSIVE Columns(_)
\* The columns pd.json_normalize gives the table: every key of every record.
Columns(rs) == IF rs = <<>> THEN {} ELSE DOMAIN Head(rs).rec \cup Columns(Tail(rs))

\* pd.json_normalize(activities_list): one row per record, in order; a key a
\* record lacks is NaN in its row.
JsonNormalize(rs) ==
    LET cs == Columns(rs)
    IN  [cols |-> cs,
         rows |-> [i \in 1..Len(rs) |->
                     [cnt |-> rs[i].cnt,
                      rec |-> [c \in cs |-> IF c \in DOMAIN rs[i].rec
                                            THEN rs[i].rec[c] ELSE NaN]]]]

\* Lines 84-86: the statements after the loop.
Normalized(list) == IF list # <<>> THEN JsonNormalize(list) ELSE EmptyFrame

\* Lines 88-90: the handler of requests.RequestException.
ExceptHandler(list) == EmptyFrame

\* A loop condition that admits one more iteration at the limit.
LoopCond_Inclusive(list, lim) == Count(list) <= lim

\* Line 56: the loop condition.
LoopCond(list, lim) == Count(list) < lim

\* A get_data whose accumulator outlives the call instead of being reset.
GetData_KeepsList(lim) ==
    /\ pc = "idle"
    /\ call < MaxCalls
    /\ call' = call + 1
    /\ n' = lim
    /\ per_page' = Min(lim, STRAVA_MAX_PER_PAGE)
    /\ page' = 1
    /\ resps' = <<>>
    /\ out' = {}
    /\ fault' = "none"
    /\ last' = "get_data"
    /\ held' = HeldKind(data)
    /\ UNCHANGED activities_list
    /\ IF LoopCond(activities_list, lim)
       THEN /\ pc' = "loop"
            /\ UNCHANGED data
       ELSE /\ pc' = "idle"
            /\ data' = Normalized(activities_list)

\* A get_data that tests its loop condition after the first request only.
GetData_DoWhile(lim) ==
    /\ pc = "idle"
    /\ call < MaxCalls
    /\ call' = call + 1
    /\ n' = lim
    /\ per_page' = Min(lim, STRAVA_MAX_PER_PAGE)
    /\ page' = 1
    /\ activities_list' = <<>>
    /\ resps' = <<>>
    /\ out' = {}
    /\ fault' = "none"
    /\ last' = "get_data"
    /\ held' = HeldKind(data)
    /\ pc' = "loop"
    /\ UNCHANGED data

\* get_data(access_token, n): lines 44-56.  A limit the loop condition rejects
\* at once runs straight to lines 85-86.
GetData(lim) ==
    /\ pc = "idle"
    /\ call < MaxCalls
    /\ call' = call + 1
    /\ n' = lim
    /\ per_page' = Min(lim, STRAVA_MAX_PER_PAGE)
    /\ page' = 1
    /\ activities_list' = <<>>
    /\ resps' = <<>>
    /\ out' = {}
    /\ fault' = "none"
    /\ last' = "get_data"
    /\ held' = HeldKind(data)
    /\ IF LoopCond(<<>>, lim)
       THEN /\ pc' = "loop"
            /\ UNCHANGED data
       ELSE /\ pc' = "idle"
            /\ data' = Normalized(<<>>)

\* Lines 57-58: the request for the current page, with the parameters it
\* carries, and the answer it got.
Answer(kind, payload) ==
    [kind |-> kind, payload |-> payload, page |-> page, per_page |-> per_page]

\* A get_data without the except clause: the exception reaches the caller.
RespTransportError_Uncaught ==
    /\ pc = "loop"
    /\ resps' = Append(resps, Answer("transport", <<>>))
    /\ fault' = "RequestException"
    /\ pc' = "idle"
    /\ UNCHANGED <<data, n, per_page, page, activities_list, call, out, last, held>>

\* Line 58 raises requests.RequestException (connection error, timeout).
RespTransportError ==
    /\ pc = "loop"
    /\ resps' = Append(resps, Answer("transport", <<>>))
    /\ out' = out \cup {"network error"}
    /\ data' = ExceptHandler(activities_list)
    /\ pc' = "idle"
    /\ UNCHANGED <<n, per_page, page, activities_list, call, fault, last, held>>

\* An error status that is reported but does not leave the loop.
RespStatusError_NoBreak ==
    /\ pc = "loop"
    /\ Len(resps) < 4
    /\ resps' = Append(resps, Answer("status", <<>>))
    /\ out' = out \cup {"api error status"}
    /\ UNCHANGED <<data, pc, n, per_page, page, activities_list, call, fault, last, held>>

\* Lines 59-66: a status code other than 200.
RespStatusError ==
    /\ pc = "loop"
    /\ resps' = Append(resps, Answer("status", <<>>))
    /\ out' = out \cup {"api error status"}
    /\ data' = Normalized(activities_list)
    /\ pc' = "idle"
    /\ UNCHANGED <<n, per_page, page, activities_list, call, fault, last, held>>

\* Lines 68-72: status 200 with an object carrying "message" or "errors".
RespErrorObject ==
    /\ pc = "loop"
    /\ resps' = Append(resps, Answer("errobj", <<>>))
    /\ out' = out \cup {"api error object"}
    /\ data' = Normalized(activities_list)
    /\ pc' = "idle"
    /\ UNCHANGED <<n, per_page, page, activities_list, call, fault, last, held>>

\* An empty list that does not leave the loop.
RespEmptyList_NoBreak ==
    /\ pc = "loop"
    /\ Len(resps) < 4
    /\ resps' = Append(resps, Answer("empty", <<>>))
    /\ UNCHANGED <<data, pc, n, per_page, page, activities_list, call, fault, out,
                   last, held>>

\* An empty list after which the same page is requested again, for ever.
RespEmptyList_Retries ==
    /\ pc = "loop"
    /\ resps' = Append(resps, Answer("empty", <<>>))
    /\ pc' = "retrying"
    /\ UNCHANGED <<data, n, per_page, page, activities_list, call, fault, out,
                   last, held>>

\* Lines 74-76: status 200 with an empty list.
RespEmptyList ==
    /\ pc = "loop"
    /\ resps' = Append(resps, Answer("empty", <<>>))
    /\ data' = Normalized(activities_list)
    /\ pc' = "idle"
    /\ UNCHANGED <<n, per_page, page, activities_list, call, fault, out, last, held>>

\* A loop that never notices a short page.
ShortPage_Never(payload, pp) == FALSE

\* Line 80: the page is short.
ShortPage(payload, pp) == Count(payload) < pp

\* A loop that forgets page += 1.
RespRecords_SamePage(payload) ==
    /\ pc = "loop"
    /\ resps' = Append(resps, Answer("records", payload))
    /\ activities_list' = activities_list \o payload
    /\ page' = page
    /\ IF ShortPage(payload, per_page) \/ ~LoopCond(activities_list', n)
       THEN /\ pc' = "idle"
            /\ data' = Normalized(activities_list')
       ELSE /\ pc' = "loop"
            /\ UNCHANGED data
    /\ UNCHANGED <<n, per_page, call, fault, out, last, held>>

\* Lines 78-82 and the loop condition of line 56: status 200 with a non-empty
\* list of records.
RespRecords(payload) ==
    /\ pc = "loop"
    /\ resps' = Append(resps, Answer("records", payload))
    /\ activities_list' = activities_list \o payload
    /\ IF ShortPage(payload, per_page)
       THEN /\ page' = page
            /\ pc' = "idle"
            /\ data' = Normalized(activities_list')
       ELSE /\ page' = page + 1
            /\ IF LoopCond(activities_list', n)
               THEN /\ pc' = "loop"
                    /\ UNCHANGED data
               ELSE /\ pc' = "idle"
                    /\ data' = Normalized(activities_list')
    /\ UNCHANGED <<n, per_page, call, fault, out, last, held>>

(* ----------------------------- tidy_data ------------------------------ *)

Inf == [t |-> "inf", v |-> 0]
Rat(p, q) == [t |-> "rat", v |-> <<p, q>>]

\* A rounding that truncates.
RoundHalfEven_Floor(p, q) == p \div q

\* numpy's rounding of the non-negative quotient p / q to an integer, halves
\* to the even neighbour.
RoundHalfEven(p, q) ==
    LET fl == p \div q
        r  == p % q
    IN  IF 2 * r < q THEN fl
        ELSE IF 2 * r > q THEN fl + 1
        ELSE IF fl % 2 = 0 THEN fl ELSE fl + 1

\* A numeric cell as a fraction <<numerator, denominator>>.
Fraction(x) ==
    CASE x.t = "num" -> <<x.v, 1>>
      [] x.t = "dec" -> <<x.v, 100>>
      [] x.t = "rat" -> x.v

\* Series / Series (and Series / scalar), one element: a null operand gives
\* NaN, 0 / 0 gives NaN, x / 0 gives infinity.
TrueDiv(a, b) ==
    IF IsNull(a) \/ IsNull(b) THEN NaN
    ELSE LET fa == Fraction(a)
             fb == Fraction(b)
         IN  IF fb[1] = 0
             THEN (IF fa[1] = 0 THEN NaN ELSE Inf)
             ELSE Rat(fa[1] * fb[2], fa[2] * fb[1])

\* Series.round(2), one element.
Round2(x) ==
    IF x.t \in {"num", "dec", "rat"}
    THEN Dec(RoundHalfEven(100 * Fraction(x)[1], Fraction(x)[2]))
    ELSE x

\* A quotient whose infinities are left in place.
ReplaceInf_Skip(x) == x

\* Series.replace([np.inf, -np.inf], np.nan), one element.
ReplaceInf(x) == IF x.t = "inf" THEN NaN ELSE x

\* Series.astype(str), one element.
AsTypeStr(x) ==
    CASE x.t = "str" -> x.v
      [] x.t = "NaN" -> <<"n", "a", "n">>
      [] x.t = "None" -> <<"N", "o", "n", "e">>
      [] OTHER -> <<"?">>

RECURSIVE StripT(_)
\* Series.str.replace("T.*", "", regex=True), one element: the text before
\* the first "T".
StripT(s) ==
    IF s = <<>> \/ Head(s) = "T" THEN <<>> ELSE <<Head(s)>> \o StripT(Tail(s))

Digits == {"0", "1", "2", "3", "4", "5", "6", "7", "8", "9"}

DigitVal(c) ==
    CASE c = "0" -> 0 [] c = "1" -> 1 [] c = "2" -> 2 [] c = "3" -> 3
      [] c = "4" -> 4 [] c = "5" -> 5 [] c = "6" -> 6 [] c = "7" -> 7
      [] c = "8" -> 8 [] c = "9" -> 9

\* pd.to_datetime(..., errors="coerce"), one element, for the ISO form
\* YYYY-MM-DD; any other text is coerced to NaT.
ToDatetime(s) ==
    IF /\ Len(s) = 10
       /\ s[5] = "-" /\ s[8] = "-"
       /\ \A i \in {1, 2, 3, 4, 6, 7, 9, 10} : s[i] \in Digits
    THEN LET y == 1000 * DigitVal(s[1]) + 100 * DigitVal(s[2])
                  + 10 * DigitVal(s[3]) + DigitVal(s[4])
             m == 10 * DigitVal(s[6]) + DigitVal(s[7])
             d == 10 * DigitVal(s[9]) + DigitVal(s[10])
         IN  IF m \in 1..12 /\ d \in 1..31 THEN Timestamp(y, m, d) ELSE NaT
    ELSE NaT

\* activities[c] = series: the column c is added, or overwritten, with one
\* value of the series per row.
WithColumn(df, c, series) ==
    [cols |-> df.cols \cup {c},
     rows |-> [i \in 1..Len(df.rows) |->
                 [cnt |-> df.rows[i].cnt,
                  rec |-> (c :> series[i]) @@ df.rows[i].rec]]]

\* Lines 110-114.
ElapsedMinOf(r) == Round2(TrueDiv(r["elapsed_time"], Num(60)))
WithElapsedMin(df) ==
    IF "elapsed_time" \in df.cols
    THEN WithColumn(df, "elapsed_min", [i \in 1..Len(df.rows) |-> ElapsedMinOf(df.rows[i].rec)])
    ELSE WithColumn(df, "elapsed_min", [i \in 1..Len(df.rows) |-> None])

\* Lines 117-121.
DistanceKmOf(r) == Round2(TrueDiv(r["distance"], Num(1000)))

\* A missing distance that is reported without creating the column.
WithDistanceKm_Skip(df) ==
    IF "distance" \in df.cols
    THEN WithColumn(df, "distance_km", [i \in 1..Len(df.rows) |-> DistanceKmOf(df.rows[i].rec)])
    ELSE df

\* A distance column that is nulled as a whole when any record lacks it.
WithDistanceKm_AnyMissing(df) ==
    IF "distance" \in df.cols
          /\ \A i \in 1..Len(df.rows) : ~IsNull(df.rows[i].rec["distance"])
    THEN WithColumn(df, "distance_km", [i \in 1..Len(df.rows) |-> DistanceKmOf(df.rows[i].rec)])
    ELSE WithColumn(df, "distance_km", [i \in 1..Len(df.rows) |-> None])

\* A conversion that also rewrites the distance column in kilometres.
WithDistanceKm_InPlace(df) ==
    IF "distance" \in df.cols
    THEN WithColumn(
             WithColumn(df, "distance_km",
                        [i \in 1..Len(df.rows) |-> DistanceKmOf(df.rows[i].rec)]),
             "distance", [i \in 1..Len(df.rows) |-> DistanceKmOf(df.rows[i].rec)])
    ELSE WithColumn(df, "distance_km", [i \in 1..Len(df.rows) |-> None])

WithDistanceKm(df) ==
    IF "distance" \in df.cols
    THEN WithColumn(df, "distance_km", [i \in 1..Len(df.rows) |-> DistanceKmOf(df.rows[i].rec)])
    ELSE WithColumn(df, "distance_km", [i \in 1..Len(df.rows) |-> None])

\* Lines 124-129.
SpeedOf(r) == Round2(ReplaceInf(TrueDiv(r["elapsed_min"], r["distance_km"])))
WithSpeed(df) ==
    IF {"elapsed_min", "distance_km"} \subseteq df.cols
    THEN WithColumn(df, "speed_mins_per_km", [i \in 1..Len(df.rows) |-> SpeedOf(df.rows[i].rec)])
    ELSE WithColumn(df, "speed_mins_per_km", [i \in 1..Len(df.rows) |-> NaN])

\* Lines 132-143.
DateOf(r) == ToDatetime(StripT(AsTypeStr(r["start_date_local"])))
WithDate(df) ==
    IF "start_date_local" \in df.cols
    THEN WithColumn(df, "date", [i \in 1..Len(df.rows) |-> DateOf(df.rows[i].rec)])
    ELSE WithColumn(df, "date", [i \in 1..Len(df.rows) |-> None])

\* A tidy_data that derives nothing once any source column is missing.
Tidied_AllOrNothing(df) ==
    IF {"elapsed_time", "distance", "start_date_local"} \subseteq df.cols
    THEN WithDate(WithSpeed(WithDistanceKm(WithElapsedMin(df))))
    ELSE WithColumn(WithColumn(WithColumn(WithColumn(df,
             "elapsed_min", [i \in 1..Len(df.rows) |-> None]),
             "distance_km", [i \in 1..Len(df.rows) |-> None]),
             "speed_mins_per_km", [i \in 1..Len(df.rows) |-> NaN]),
             "date", [i \in 1..Len(df.rows) |-> None])

\* Lines 109-145.
Tidied(df) == WithDate(WithSpeed(WithDistanceKm(WithElapsedMin(df))))

\* The diagnostics of lines 113, 120 and 142.
MissingDiagnostics(df) ==
    { "missing " \o c : c \in {"elapsed_time", "distance", "start_date_local"} \ df.cols }

\* isinstance(activities, pd.DataFrame)
IsDataFrame(d) == DOMAIN d = {"cols", "rows"}

\* An emptiness test that never fires.
IsEmpty_Never(df) == FALSE

\* DataFrame.empty: some axis has length 0.
IsEmpty(df) == df.rows = <<>> \/ df.cols = {}

\* Line 101: reading self.data before any assignment raises AttributeError.
HasData(d) == d # Unset

\* tidy_data(): lines 101-145.
TidyData ==
    /\ pc = "idle"
    /\ last' = "tidy_data"
    /\ held' = HeldKind(data)
    /\ IF ~HasData(data)
       THEN /\ fault' = "AttributeError"
            /\ out' = {}
            /\ UNCHANGED data
       ELSE IF ~IsDataFrame(data) \/ IsEmpty(data)
       THEN /\ fault' = "none"
            /\ out' = {"no activity data"}
            /\ data' = EmptyFrame
       ELSE /\ fault' = "none"
            /\ out' = MissingDiagnostics(data)
            /\ data' = Tidied(data)
    /\ UNCHANGED <<pc, n, per_page, page, activities_list, call, resps>>

(* --------------------------- specification ---------------------------- *)

\* The instance after construction: the class defines no __init__, so no
\* attribute data exists yet.
Init ==
    /\ data = Unset
    /\ pc = "idle"
    /\ n = 0
    /\ per_page = 0
    /\ page = 0
    /\ activities_list = <<>>
    /\ call = 0
    /\ resps = <<>>
    /\ fault = "none"
    /\ out = {}
    /\ last = "none"
    /\ held = "unset"

Next ==
    \/ \E lim \in Limits : GetData(lim)
    \/ RespTransportError
    \/ RespStatusError
    \/ RespErrorObject
    \/ RespEmptyList
    \/ \E payload \in Payloads(call, page, per_page) : RespRecords(payload)
    \/ TidyData

Spec == Init /\ [][Next]_vars

\* The instance after a get_data(token, n) whose single request was answered
\* with a list of exactly n records: lines 78-86 have stored them.
InitTidy ==
    \E len \in 1..MaxRows : \E ks \in [1..len -> TidyKinds] :
        /\ activities_list = TidyList(ks)
        /\ n = len
        /\ per_page = Min(len, STRAVA_MAX_PER_PAGE)
        /\ page = 2
        /\ resps = <<[kind |-> "records", payload |-> TidyList(ks), page |-> 1,
                      per_page |-> Min(len, STRAVA_MAX_PER_PAGE)]>>
        /\ call = 1
        /\ data = Normalized(TidyList(ks))
        /\ pc = "idle"
        /\ fault = "none"
        /\ out = {}
        /\ last = "get_data"
        /\ held = "unset"

NextTidy == TidyData

\* tidy_data called, any number of times, on the table get_data left.
SpecTidy == InitTidy /\ [][NextTidy]_vars

\* Line 58: requests.get blocks until the request is answered or the transport
\* raises.
Respond ==
    \/ RespTransportError
    \/ RespStatusError
    \/ RespErrorObject
    \/ RespEmptyList
    \/ \E payload \in Payloads(call, page, per_page) : RespRecords(payload)

\* get_data alone, from call to return, at most LiveCalls times.
NextLive ==
    \/ \E lim \in Limits : GetData(lim) /\ call' <= LiveCalls
    \/ RespTransportError
    \/ RespStatusError
    \/ RespErrorObject
    \/ RespEmptyList
    \/ \E payload \in Payloads(call, page, per_page) : RespRecords(payload)

\* The instance when every request is eventually answered: get_data runs on
\* one thread, so an answered request is followed by the rest of the iteration.
LiveSpec == Init /\ [][NextLive]_vars /\ WF_vars(Respond)

(* ---------------------------- properties ------------------------------ *)

RECURSIVE PagesUpTo(_)
\* The records of the first k responses, in the order they were received.
PagesUpTo(k) == IF k <= 0 THEN <<>> ELSE PagesUpTo(k - 1) \o resps[k].payload

\* Everything the current / last get_data received.
Fetched == PagesUpTo(Len(resps))

\* The table df holds exactly the records of list, in the same order, each
\* with the values the API gave it.
SameRecords(df, list) ==
    /\ Len(df.rows) = Len(list)
    /\ \A i \in 1..Len(list) :
          /\ df.rows[i].cnt = list[i].cnt
          /\ \A c \in DOMAIN list[i].rec : df.rows[i].rec[c] = list[i].rec[c]

\* A table: every row has a value for exactly the table's columns.
WellFormed(d) ==
    /\ IsDataFrame(d)
    /\ \A i \in 1..Len(d.rows) : d.rows[i].cnt >= 1 /\ DOMAIN d.rows[i].rec = d.cols

\* get_data has returned and nothing was called since.
Returned == pc = "idle" /\ last = "get_data"

LastKind == IF resps = <<>> THEN "none" ELSE resps[Len(resps)].kind

CeilDiv(a, b) == (a + b - 1) \div b

\* C1: if the transport raises on the request for page k, the table held
\* after get_data returns holds exactly the records of pages 1..k-1 (empty
\* only when k = 1).
C1_TransportKeepsPartial ==
    (Returned /\ LastKind = "transport") =>
        /\ fault = "none"
        /\ SameRecords(data, PagesUpTo(Len(resps) - 1))
        /\ (data.rows = <<>> => Len(resps) = 1)

\* C2: an API-reported error on page k (error status or error object) is the
\* last response of its get_data, no request follows it, and the table held
\* afterwards holds exactly the records of pages 1..k-1 in page order.
C2_ApiErrorKeepsPartial ==
    \A i \in 1..Len(resps) :
        resps[i].kind \in {"status", "errobj"} =>
            /\ i = Len(resps)
            /\ pc = "idle"
            /\ \A j \in 1..(i - 1) : resps[j].kind = "records"
            /\ (last = "get_data" =>
                    /\ fault = "none"
                    /\ SameRecords(data, PagesUpTo(i - 1))
                    /\ \A r \in 1..Len(data.rows) : \A q \in 1..r :
                          data.rows[q].rec["id"].v[2] <= data.rows[r].rec["id"].v[2])

C2_Witness ==
    /\ Returned
    /\ Len(resps) = 3
    /\ LastKind \in {"status", "errobj"}
    /\ Len(data.rows) = 2
    /\ data.rows[1].rec["id"].v[2] = 1
    /\ data.rows[2].rec["id"].v[2] = 2

\* C3: for a positive limit get_data propagates no exception, whatever the
\* responses, and leaves a well-formed (possibly empty) table.
C3_GetDataNeverRaises ==
    (last = "get_data" /\ n >= 1) =>
        /\ fault = "none"
        /\ (pc = "idle" => WellFormed(data))

C3_Witness ==
    /\ Returned
    /\ n >= 1
    /\ Len(resps) = 2
    /\ LastKind = "transport"
    /\ fault = "none"
    /\ data = EmptyFrame

\* C4: tidy_data never fails and always leaves a well-formed table, also as
\* the first call on the instance.
C4_TidyNeverFails ==
    last = "tidy_data" => (fault = "none" /\ WellFormed(data))

NoErrorMet == \A i \in 1..Len(resps) : resps[i].kind \in {"records", "empty"}

\* C5: for a positive limit, a get_data that meets no error issues at most
\* ceil(limit / 200) requests, and at least one.
C5_RequestCount ==
    (last = "get_data" /\ n >= 1 /\ NoErrorMet) =>
        /\ Len(resps) <= CeilDiv(n, 200)
        /\ (pc = "idle" => Len(resps) >= 1)

C5_Witness ==
    /\ Returned
    /\ n = MaxLimit
    /\ NoErrorMet
    /\ Len(resps) = CeilDiv(n, 200)
    /\ Len(resps) >= 3
    /\ LastKind = "records"

\* C6: a page with fewer records than were asked for is appended to the
\* accumulator and is the last request of its get_data.
C6_ShortPageStops ==
    \A i \in 1..Len(resps) :
        (resps[i].kind = "records" /\ Count(resps[i].payload) < per_page) =>
            /\ i = Len(resps)
            /\ pc = "idle"
            /\ activities_list = PagesUpTo(i)
            /\ (last = "get_data" => SameRecords(data, PagesUpTo(i)))

C6_Witness ==
    /\ Returned
    /\ Len(resps) = 2
    /\ LastKind = "records"
    /\ Count(resps[2].payload) = per_page - 1
    /\ Count(data.rows) = 2 * per_page - 1

\* C7: when no page is larger than was asked for, the table held after
\* get_data has fewer than limit + min(limit, 200) records, and it has all the
\* records of every page fetched.
C7_OvershootKeepsAll ==
    (Returned /\ n >= 1
        /\ \A i \in 1..Len(resps) : Count(resps[i].payload) <= per_page) =>
        /\ Count(data.rows) < n + Min(n, 200)
        /\ Count(data.rows) = Count(Fetched)

\* C8: the table held after get_data returns holds only records fetched by
\* that invocation: nothing of an earlier get_data, no column of an earlier
\* tidy_data.
C8_GetDataReplaces ==
    Returned =>
        /\ IsDataFrame(data)
        /\ data.cols \cap DerivedColumns = {}
        /\ \A i \in 1..Len(data.rows) :
              /\ data.rows[i].rec["id"].v[1] = call
              /\ \E j \in 1..Len(Fetched) : Fetched[j].rec["id"] = data.rows[i].rec["id"]

C8_Witness ==
    /\ Returned
    /\ call = 2
    /\ held = "tidied"
    /\ Len(data.rows) >= 2

\* The rows of d are the rows of e, one for one and in order, and no column
\* of d other than a derived one has another value in e.
RowsKept(d, e) ==
    /\ Len(e.rows) = Len(d.rows)
    /\ \A i \in 1..Len(d.rows) :
          /\ e.rows[i].cnt = d.rows[i].cnt
          /\ DOMAIN e.rows[i].rec = e.cols
          /\ \A c \in d.cols \ DerivedColumns : e.rows[i].rec[c] = d.rows[i].rec[c]

\* C9: on a non-empty table tidy_data keeps the rows one for one, in order and
\* with their source fields unchanged, and adds the four derived columns, each
\* present even when entirely null.
C9_TidyKeepsRows ==
    [][(last' = "tidy_data" /\ HasData(data) /\ data.rows # <<>>) =>
          /\ fault' = "none"
          /\ RowsKept(data, data')
          /\ data'.cols = data.cols \cup DerivedColumns]_vars

C9_Witness ==
    /\ last = "tidy_data"
    /\ held = "raw"
    /\ Len(data.rows) >= 2
    /\ DerivedColumns \subseteq data.cols
    /\ \A i \in 1..Len(data.rows) : IsNull(data.rows[i].rec["distance_km"])
    /\ \E i \in 1..Len(data.rows) : ~IsNull(data.rows[i].rec["date"])

C15_RequestParameters ==
    /\ \A k \in 1..Len(resps) :
          /\ resps[k].page = k
          /\ resps[k].per_page = (IF n < 200 THEN n ELSE 200)
          /\ resps[k].per_page <= 200
    /\ (pc = "loop" => page = Len(resps) + 1)

C15_Witness ==
    /\ Returned
    /\ n = MaxLimit
    /\ Len(resps) = 3
    /\ resps[3].page = 3
    /\ resps[3].per_page = 200

\* C16: an empty list on page k ends get_data: no request follows, nothing is
\* reported, and the table held holds exactly the records of pages 1..k-1.
C16_EmptyPageStops ==
    \A i \in 1..Len(resps) :
        resps[i].kind = "empty" =>
            /\ i = Len(resps)
            /\ pc = "idle"
            /\ (last = "get_data" =>
                    /\ out = {}
                    /\ fault = "none"
                    /\ SameRecords(data, PagesUpTo(i - 1)))

C16_Witness ==
    /\ Returned
    /\ Len(resps) = 3
    /\ LastKind = "empty"
    /\ Len(data.rows) = 2
    /\ out = {}

\* C17: every request is issued while fewer than limit records are
\* accumulated; once the count has reached limit no request follows.
C17_RequestsBelowLimit ==
    /\ \A i \in 1..Len(resps) : Count(PagesUpTo(i - 1)) < n
    /\ (pc = "loop" => Count(activities_list) < n)
    /\ (Count(Fetched) >= n => pc = "idle")

C17_Witness ==
    /\ Returned
    /\ Len(resps) = 2
    /\ Count(PagesUpTo(1)) = n - 1
    /\ Count(Fetched) >= n

\* C19: get_data with a limit of zero or less issues no request, raises
\* nothing and leaves an empty table.
C19_NonPositiveLimit ==
    (last = "get_data" /\ n <= 0) =>
        /\ pc = "idle"
        /\ resps = <<>>
        /\ fault = "none"
        /\ data = EmptyFrame

C19_Witness ==
    /\ Returned
    /\ n < 0
    /\ held = "tidied"
    /\ resps = <<>>
    /\ data = EmptyFrame

\* C18: for a positive limit and any answers of the API, each request being
\* answered eventually, get_data issues finitely many requests and returns
\* with the table set.
C18_GetDataTerminates ==
    (last = "get_data" /\ pc # "idle" /\ n >= 1)
        ~> (pc = "idle" /\ HasData(data) /\ Len(resps) <= n)

C18_Witness ==
    /\ Returned
    /\ n = MaxLimit
    /\ Len(resps) = 3
    /\ HasData(data)
    /\ \E i \in 1..3 : Count(resps[i].payload) > per_page

(* Properties of tidy_data, stated on the table of one page of single       *)
(* records: row i of the table is record i of activities_list.             *)

\* tidy_data has returned a table with rows and nothing was called since.
TidiedState == last = "tidy_data" /\ fault = "none" /\ data.rows # <<>>

\* Record i as the API gave it, and whether it carries field f.
Raw(i) == activities_list[i].rec
Carries(i, f) == f \in DOMAIN Raw(i)
SomeCarries(f) == \E i \in 1..Len(activities_list) : Carries(i, f)

\* The value of column c in row i of the held table.
Cell(i, c) == data.rows[i].rec[c]

Abs(x) == IF x < 0 THEN -x ELSE x

\* h / 100 is p / q rounded to two decimal places.
IsRounded(h, p, q) == 2 * Abs(100 * p - h * q) <= q

ElapsedMinRight(i) ==
    /\ Cell(i, "elapsed_min").t = "dec"
    /\ IsRounded(Cell(i, "elapsed_min").v, Raw(i)["elapsed_time"].v, 60)

DistanceKmRight(i) ==
    /\ Cell(i, "distance_km").t = "dec"
    /\ IsRounded(Cell(i, "distance_km").v, Raw(i)["distance"].v, 1000)

\* The pace is the quotient of the two derived values, and null where the
\* derived distance is zero.
SpeedRight(i) ==
    IF Cell(i, "distance_km").v = 0
    THEN IsNull(Cell(i, "speed_mins_per_km"))
    ELSE /\ Cell(i, "speed_mins_per_km").t = "dec"
         /\ IsRounded(Cell(i, "speed_mins_per_km").v,
                      Cell(i, "elapsed_min").v, Cell(i, "distance_km").v)

\* The text of s before its first "T".
BeforeT(s) ==
    LET ts == {k \in 1..Len(s) : s[k] = "T"}
    IN  IF ts = {} THEN s
        ELSE SubSeq(s, 1, (CHOOSE k \in ts : \A j \in ts : k <= j) - 1)

DigitChars == <<"0", "1", "2", "3", "4", "5", "6", "7", "8", "9">>

\* The decimal digit of x that weighs w (1, 10, 100, 1000).
DigitAt(x, w) == DigitChars[((x \div w) % 10) + 1]

\* YYYY-MM-DD of the date <<y, m, d>>.
IsoText(ymd) ==
    << DigitAt(ymd[1], 1000), DigitAt(ymd[1], 100), DigitAt(ymd[1], 10), DigitAt(ymd[1], 1),
       "-", DigitAt(ymd[2], 10), DigitAt(ymd[2], 1),
       "-", DigitAt(ymd[3], 10), DigitAt(ymd[3], 1) >>

\* The date is the one written before the first "T"; text that is no date
\* gives null.
DateRight(i) ==
    LET pre == BeforeT(Raw(i)["start_date_local"].v)
    IN  \/ Cell(i, "date").t = "date" /\ IsoText(Cell(i, "date").v) = pre
        \/ IsNull(Cell(i, "date")) /\ Len(pre) # 10

\* C11: the derivations are independent per source field: a field no record
\* carries nulls, in all rows, the columns derived from it (distance:
\* distance_km and speed_mins_per_km; elapsed_time: elapsed_min and
\* speed_mins_per_km; start_date_local: date) and only those; every other
\* column is still computed from the fields the records carry.
C11_IndependentDerivations ==
    TidiedState =>
        /\ ~SomeCarries("distance") =>
              \A i \in 1..Len(data.rows) :
                  /\ IsNull(Cell(i, "distance_km"))
                  /\ IsNull(Cell(i, "speed_mins_per_km"))
        /\ ~SomeCarries("elapsed_time") =>
              \A i \in 1..Len(data.rows) :
                  /\ IsNull(Cell(i, "elapsed_min"))
                  /\ IsNull(Cell(i, "speed_mins_per_km"))
        /\ ~SomeCarries("start_date_local") =>
              \A i \in 1..Len(data.rows) : IsNull(Cell(i, "date"))
        /\ \A i \in 1..Len(data.rows) :
              /\ Carries(i, "elapsed_time") => ElapsedMinRight(i)
              /\ Carries(i, "distance") => DistanceKmRight(i)
              /\ Carries(i, "start_date_local") => DateRight(i)
              /\ (Carries(i, "elapsed_time") /\ Carries(i, "distance")) => SpeedRight(i)

C11_Witness ==
    /\ TidiedState
    /\ Len(data.rows) = 2
    /\ ~SomeCarries("distance")
    /\ \A i \in 1..2 : Carries(i, "elapsed_time") /\ Carries(i, "start_date_local")
    /\ \A i \in 1..2 : IsNull(Cell(i, "distance_km")) /\ IsNull(Cell(i, "speed_mins_per_km"))
    /\ Cell(1, "elapsed_min") = Dec(200)
    /\ Cell(2, "elapsed_min") = Dec(208)
    /\ Cell(1, "date") = Timestamp(2024, 5, 1)

\* C12: after tidy_data no row has an infinite speed_mins_per_km, and every
\* row whose distance_km is zero has it null.
C12_NoInfiniteSpeed ==
    TidiedState =>
        \A i \in 1..Len(data.rows) :
            /\ Cell(i, "speed_mins_per_km").t # "inf"
            /\ Cell(i, "distance_km") = Dec(0) => IsNull(Cell(i, "speed_mins_per_km"))

C12_Witness ==
    /\ TidiedState
    /\ Len(data.rows) = 2
    /\ \A i \in 1..2 : Carries(i, "distance") /\ Carries(i, "elapsed_time")
    /\ Raw(1)["distance"] = Num(0)
    /\ Raw(2)["distance"] = Num(4)
    /\ \A i \in 1..2 :
          /\ Cell(i, "distance_km") = Dec(0)
          /\ Cell(i, "speed_mins_per_km") = NaN

\* C13: a row with elapsed_time, distance (not zero in km) and
\* start_date_local gets elapsed_min = elapsed_time / 60, distance_km =
\* distance / 1000 and speed_mins_per_km = elapsed_min / distance_km, each
\* rounded to 2 places, and the date written before the first "T"; 120 s,
\* 1000 m, 2024-05-01T10:00:00Z give 2.00, 1.00, 2.00 and 2024-05-01.
C13_DerivedValues ==
    TidiedState =>
        \A i \in 1..Len(data.rows) :
            /\ ( /\ Carries(i, "elapsed_time") /\ Carries(i, "distance")
                 /\ Carries(i, "start_date_local")
                 /\ Cell(i, "distance_km") # Dec(0) ) =>
                    /\ ElapsedMinRight(i)
                    /\ DistanceKmRight(i)
                    /\ SpeedRight(i)
                    /\ ~IsNull(Cell(i, "speed_mins_per_km"))
                    /\ DateRight(i)
            /\ ( /\ Carries(i, "elapsed_time") /\ Raw(i)["elapsed_time"] = Num(120)
                 /\ Carries(i, "distance") /\ Raw(i)["distance"] = Num(1000)
                 /\ Carries(i, "start_date_local")
                 /\ Raw(i)["start_date_local"] = Str(DateTimeZ) ) =>
                    /\ Cell(i, "elapsed_min") = Dec(200)
                    /\ Cell(i, "distance_km") = Dec(100)
                    /\ Cell(i, "speed_mins_per_km") = Dec(200)
                    /\ Cell(i, "date") = Timestamp(2024, 5, 1)

C13_Witness ==
    /\ TidiedState
    /\ Len(data.rows) = 2
    /\ Raw(1) = ("id" :> Id(1, 1, 1)) @@ Fields(Num(120), Num(1000), Str(DateTimeZ))
    /\ Raw(2) = ("id" :> Id(1, 1, 2)) @@ Fields(Num(125), Num(2346), Str(DateTimeZ))
    /\ Cell(1, "speed_mins_per_km") = Dec(200)
    /\ Cell(2, "elapsed_min") = Dec(208)
    /\ Cell(2, "distance_km") = Dec(235)
    /\ Cell(2, "speed_mins_per_km") = Dec(89)
    /\ Cell(2, "date") = Timestamp(2024, 5, 1)

\* C14: tidy_data is idempotent: a second tidy_data leaves the table the first
\* one produced, and every tidy_data leaves the table that tidying the raw set
\* itself gives.
C14_TidyIdempotent ==
    [][(last' = "tidy_data" /\ fault' = "none") =>
          /\ (last = "tidy_data" => data' = data)
          /\ data' = Tidied(JsonNormalize(activities_list))]_vars

C14_Witness ==
    /\ TidiedState
    /\ held = "tidied"
    /\ Len(data.rows) = 2
    /\ Cell(1, "speed_mins_per_km") = Dec(89)
    /\ IsNull(Cell(2, "elapsed_min"))

====
